---------------------------- MODULE Spec2Model ----------------------------
(***************************************************************************)
(* Model of cmd::Parser (consoleapp/include/cmd/parser.inl and             *)
(* consoleapp/include/cmd_parser.h): the command resolver Parser::parse,   *)
(* the dispatch loop and post-validation of Parser::parse_command, and the *)
(* option parsers parse_long_argument and parse_short_argument.            *)
(*                                                                         *)
(* Strings (std::string_view) are sequences of bytes 0..255.  Indices and  *)
(* error positions are zero-based as in the C++ code; the token at the     *)
(* zero-based index i of the argument vector is args[i + 1].               *)
(* std::optional<T> is a sequence of length 0 (std::nullopt) or 1.         *)
(***************************************************************************)
EXTENDS Integers, Sequences, FiniteSets, TLC

VARIABLES
    parser,          \* the Parser object: global_command and commands
    args,            \* the argument vector handed to Parser::parse
    pc,              \* position of the computation
    parse_itarg,     \* itarg of Parser::parse, as distance from args.begin()
    current_command, \* optional<Command> selected by the resolver
    itarg,           \* itarg of parse_command, as distance from the sub-slice's begin
    result_command,  \* result::Command being built by parse_command
    name,            \* name portion of the short token being expanded
    iName,           \* byte offset of the combined-short-flag loop
    parsed_cmd,      \* what parse_command returned to parse
    ret              \* what Parser::parse returned

vars == <<parser, args, pc, parse_itarg, current_command, itarg,
          result_command, name, iName, parsed_cmd, ret>>

---------------------------------------------------------------------------
(* std::optional *)

nullopt == <<>>

Some(v) == <<v>>

has_value(o) == Len(o) = 1

value(o) == o[1]

---------------------------------------------------------------------------
(* std::string_view helpers *)

starts_with(s, prefix) ==
    /\ Len(s) >= Len(prefix)
    /\ SubSeq(s, 1, Len(prefix)) = prefix

\* s.substr(pos): the bytes from the zero-based offset pos to the end
substr(s, pos) == SubSeq(s, pos + 1, Len(s))

\* s.substr(pos, n): at most n bytes from the zero-based offset pos
substr_n(s, pos, n) ==
    SubSeq(s, pos + 1, IF pos + n < Len(s) THEN pos + n ELSE Len(s))

\* s.find(byte): the zero-based offset of the first occurrence, -1 for npos
find(s, byte) ==
    IF \E i \in 1..Len(s) : s[i] = byte
    THEN (CHOOSE i \in 1..Len(s) :
              /\ s[i] = byte
              /\ \A j \in 1..(i - 1) : s[j] # byte) - 1
    ELSE -1

\* std::find_if over a range: pred[i] tells whether the predicate holds of
\* the element at the one-based index i; the result is the index of the first
\* such element, 0 for end()
find_if(pred) ==
    IF \E i \in DOMAIN pred : pred[i]
    THEN CHOOSE i \in DOMAIN pred :
             /\ pred[i]
             /\ \A j \in 1..(i - 1) : ~pred[j]
    ELSE 0

---------------------------------------------------------------------------
(* cmd::utils::uni, the codepoint utility.  Both functions fail, with an   *)
(* empty optional, on malformed input at the start of s: an empty string,  *)
(* a byte that is no lead byte, a truncated sequence, or a byte that is no *)
(* continuation byte where one is due.                                     *)

IsContinuation(b) == b >= 128 /\ b < 192

\* the length the lead byte b announces, 0 when b is no lead byte
LeadLength(b) ==
    IF b < 128 THEN 1
    ELSE IF b >= 192 /\ b < 224 THEN 2
    ELSE IF b >= 224 /\ b < 240 THEN 3
    ELSE IF b >= 240 /\ b < 248 THEN 4
    ELSE 0

utf8_char_length(s) ==
    IF Len(s) = 0 THEN nullopt
    ELSE IF LeadLength(s[1]) = 0 THEN nullopt
    ELSE IF Len(s) < LeadLength(s[1]) THEN nullopt
    ELSE IF \E i \in 2..LeadLength(s[1]) : ~IsContinuation(s[i]) THEN nullopt
    ELSE Some(LeadLength(s[1]))

codepoint(s) ==
    LET len == utf8_char_length(s) IN
    IF ~has_value(len) THEN nullopt
    ELSE IF value(len) = 1 THEN Some(s[1])
    ELSE IF value(len) = 2 THEN Some((s[1] - 192) * 64 + (s[2] - 128))
    ELSE IF value(len) = 3
         THEN Some((s[1] - 224) * 4096 + (s[2] - 128) * 64 + (s[3] - 128))
    ELSE Some((s[1] - 240) * 262144 + (s[2] - 128) * 4096
              + (s[3] - 128) * 64 + (s[4] - 128))

---------------------------------------------------------------------------
(* Grammar model: Flag, Argument, Command, Parser::global_command *)

Flag(longname, shortname) ==
    [longname |-> longname, shortname |-> shortname]

Argument(longname, shortname, required) ==
    [longname |-> longname, shortname |-> shortname, required |-> required]

Command(longname, shortname, flags, arguments) ==
    [longname |-> longname, shortname |-> shortname,
     flags |-> flags, arguments |-> arguments]

\* std::variant<Command, std::string_view> of Parser::global_command
ByValue(command) == [holds |-> "Command", command |-> command]

ByName(longname) == [holds |-> "string_view", longname |-> longname]

\* a global command given by long name is never looked up
get_global_command_by_value_only(p) ==
    IF ~has_value(p.global_command) THEN nullopt
    ELSE IF value(p.global_command).holds = "Command"
         THEN Some(value(p.global_command).command)
    ELSE nullopt

get_global_command(p) ==
    IF ~has_value(p.global_command) THEN nullopt
    ELSE IF value(p.global_command).holds = "Command"
         THEN Some(value(p.global_command).command)
    ELSE LET found == find_if([k \in DOMAIN p.commands |->
                          value(p.global_command).longname = p.commands[k].longname])
         IN IF found # 0 THEN Some(p.commands[found]) ELSE nullopt

---------------------------------------------------------------------------
(* Result and error model *)

ResultArgument(n, v) == [kind |-> "Argument", name |-> n, value |-> v]

ResultFlag(n, occurrence) == [kind |-> "Flag", name |-> n, occurrence |-> occurrence]

Error(argument, val, type, code) ==
    [argument |-> argument, value |-> val, type |-> type, code |-> code]

PositionnedError(error, position) ==
    [tag |-> "error", error |-> error, position |-> position]

Expected(v) == [tag |-> "value", value |-> v]

\* std::bad_optional_access thrown by value() on an empty optional
BadOptionalAccess == [tag |-> "exception", what |-> "bad_optional_access"]

---------------------------------------------------------------------------
(* Parameter binder.  A flag is recorded under the long name of the        *)
(* registered flag: a repeated flag increments the occurrence counter of   *)
(* its entry instead of appending a duplicate.  An argument occurrence is  *)
(* appended as a {name, value} pair under the long name of the registered  *)
(* argument.  A positional input is accepted as opaque data and is not     *)
(* matched against the named parameters.  The token text nm that the       *)
(* callers pass is not what the entry is recorded under.                   *)

add_flag(rc, flag, nm) ==
    LET found == find_if([k \in DOMAIN rc.parameters |->
                     /\ rc.parameters[k].kind = "Flag"
                     /\ rc.parameters[k].name = flag.longname])
    IN IF found # 0
       THEN [rc EXCEPT !.parameters[found].occurrence = @ + 1]
       ELSE [rc EXCEPT !.parameters = Append(@, ResultFlag(flag.longname, 1))]

add_argument(rc, argument, nm, val) ==
    [rc EXCEPT !.parameters = Append(@, ResultArgument(argument.longname, val))]

add_input(rc, command, nm) == rc

---------------------------------------------------------------------------
(* Registered grammars.  Letters are their ASCII bytes: a 97, b 98, c 99,  *)
(* e 101, g 103, l 108, n 110, u 117, v 118, x 120, z 122; U+00E9 is the   *)
(* two bytes 195 169.                                                      *)

\* "gl": flags aa/a, bb/b, cc/c and nn (no short name); arguments nn/n and
\* ca/a.  The long name nn and the short name a are each registered both as
\* a flag and as an argument.
GlCommand ==
    Command(<<103, 108>>, nullopt,
            <<Flag(<<97, 97>>, Some(97)), Flag(<<98, 98>>, Some(98)),
              Flag(<<99, 99>>, Some(99)), Flag(<<110, 110>>, nullopt)>>,
            <<Argument(<<110, 110>>, Some(110), FALSE),
              Argument(<<99, 97>>, Some(97), FALSE)>>)

\* "bu", short name b: flags aa/a and cc/c; arguments nn/n (required) and
\* bb/b.  The short name b is registered only as an argument.
BuCommand ==
    Command(<<98, 117>>, Some(98),
            <<Flag(<<97, 97>>, Some(97)), Flag(<<99, 99>>, Some(99))>>,
            <<Argument(<<110, 110>>, Some(110), TRUE),
              Argument(<<98, 98>>, Some(98), FALSE)>>)

\* "ex", short name U+00E9: no flag and no argument.
ExCommand == Command(<<101, 120>>, Some(233), <<>>, <<>>)

Parser(global_command, commands) ==
    [global_command |-> global_command, commands |-> commands]

Parsers ==
    { Parser(Some(ByValue(GlCommand)), <<BuCommand, ExCommand>>),
      Parser(nullopt, <<BuCommand, ExCommand>>),
      Parser(Some(ByName(<<98, 117>>)), <<ExCommand, BuCommand>>),
      Parser(Some(ByName(<<122, 122>>)), <<ExCommand>>) }

---------------------------------------------------------------------------
(* Argument vectors: the program name, optionally one leading word, then   *)
(* at most MaxRest further tokens.                                         *)

MaxRest == 3

Program == <<112>>

\* b, bx, ex, U+00E9, v, the invalid byte 255, a truncated two-byte sequence
Words ==
    { <<98>>, <<98, 120>>, <<101, 120>>, <<195, 169>>, <<118>>,
      <<255>>, <<195>> }

\* -a  -n  -abc  --nn=v  --nn  ---x  v
\* -   -<255>  -a<255>
RestTokens ==
    { <<45, 97>>, <<45, 110>>, <<45, 97, 98, 99>>,
      <<45, 45, 110, 110, 61, 118>>, <<45, 45, 110, 110>>,
      <<45, 45, 45, 120>>, <<118>>,
      <<45>>, <<45, 255>>, <<45, 97, 255>> }

SeqUpTo(S, n) == UNION { [1..k -> S] : k \in 0..n }

ArgVectors ==
    { <<Program>> \o w \o r :
        w \in {<<>>} \cup { <<t>> : t \in Words },
        r \in SeqUpTo(RestTokens, MaxRest) }

\* The vectors of long options: optionally one of the words b and U+00E9,
\* then at most MaxRest of the tokens
\* --nn=v  --nn=  --nn==  --nn  --zz  --  -abc  ---x  v
LongWords == { <<98>>, <<195, 169>> }

LongTokens ==
    { <<45, 45, 110, 110, 61, 118>>, <<45, 45, 110, 110, 61>>,
      <<45, 45, 110, 110, 61, 61>>, <<45, 45, 110, 110>>,
      <<45, 45, 122, 122>>, <<45, 45>>,
      <<45, 97, 98, 99>>, <<45, 45, 45, 120>>, <<118>> }

LongVectors ==
    { <<Program>> \o w \o r :
        w \in {<<>>} \cup { <<t>> : t \in LongWords },
        r \in SeqUpTo(LongTokens, MaxRest) }

\* args[i] of the C++ code, i zero-based
Arg(i) == args[i + 1]

\* the token at the zero-based index i of the sub-slice handed to parse_command
SubArg(i) == args[parse_itarg + i + 1]

\* std::distance(args.begin(), args.end()) of that sub-slice
SubEnd == Len(args) - parse_itarg

\* no value returned yet
None == [tag |-> "none"]

Init ==
    /\ parser \in Parsers
    /\ args \in ArgVectors
    /\ pc = "parse"
    /\ parse_itarg = 1
    /\ current_command = nullopt
    /\ itarg = 0
    /\ result_command = None
    /\ name = <<>>
    /\ iName = 0
    /\ parsed_cmd = None
    /\ ret = None

\* the same start on a vector of long options
InitLong ==
    /\ parser \in Parsers
    /\ args \in LongVectors
    /\ pc = "parse"
    /\ parse_itarg = 1
    /\ current_command = nullopt
    /\ itarg = 0
    /\ result_command = None
    /\ name = <<>>
    /\ iName = 0
    /\ parsed_cmd = None
    /\ ret = None

---------------------------------------------------------------------------
(* Parser::parse, the command resolver (parser.inl 13-70) *)

\* The outcome of lines 19-56: an early return, or the selected command and
\* the position of itarg.
ShortnameSearched(tok) == has_value(utf8_char_length(tok))
                          /\ value(utf8_char_length(tok)) <= Len(tok)

FindCommand(p, tok) ==
    IF ShortnameSearched(tok)
    THEN find_if([k \in DOMAIN p.commands |->
             p.commands[k].shortname = Some(value(codepoint(tok)))])
    ELSE find_if([k \in DOMAIN p.commands |-> p.commands[k].longname = tok])

Parse ==
    /\ pc = "parse"
    /\ IF Len(args) = 1 \/ starts_with(Arg(1), <<45>>)
       THEN \* lines 22-23
            /\ current_command' = get_global_command(parser)
            /\ parse_itarg' = 1
            /\ IF has_value(current_command')
               THEN /\ pc' = "loop"
                    /\ ret' = ret
               ELSE /\ pc' = "done"
                    /\ ret' = PositionnedError(
                           Error(<<>>, nullopt, "Command", "NoGlobalCommand"), 1)
       ELSE IF ~has_value(utf8_char_length(Arg(1)))
       THEN \* lines 27-36
            /\ pc' = "done"
            /\ ret' = PositionnedError(
                   Error(<<>>, nullopt, "None", "BadString"), 1)
            /\ UNCHANGED <<current_command, parse_itarg>>
       ELSE IF ShortnameSearched(Arg(1)) /\ ~has_value(codepoint(Arg(1)))
       THEN \* line 40: value() of an empty optional
            /\ pc' = "done"
            /\ ret' = BadOptionalAccess
            /\ UNCHANGED <<current_command, parse_itarg>>
       ELSE LET found_cmd == FindCommand(parser, Arg(1)) IN
            \* lines 50-67
            /\ current_command' = IF found_cmd # 0
                                  THEN Some(parser.commands[found_cmd])
                                  ELSE get_global_command(parser)
            /\ parse_itarg' = IF found_cmd # 0 THEN 2 ELSE 1
            /\ IF has_value(current_command')
               THEN /\ pc' = "loop"
                    /\ ret' = ret
               ELSE /\ pc' = "done"
                    /\ ret' = PositionnedError(
                           Error(<<>>, nullopt, "Command", "NoGlobalCommand"),
                           parse_itarg')
    \* line 70 calls parse_command; lines 266-269 start it
    /\ itarg' = 0
    /\ result_command' = IF has_value(current_command')
                         THEN [name |-> value(current_command').longname,
                               parameters |-> <<>>]
                         ELSE result_command
    /\ UNCHANGED <<parser, args, name, iName, parsed_cmd>>

---------------------------------------------------------------------------
(* Parser::parse_long_argument (parser.inl 79-146).  The result is the     *)
(* updated result::Command and the returned PosExpected<bool>.             *)

Returned(rc, r) == [result_command |-> rc, returned |-> r]

\* lines 85-94: the name and the optional value of --name or --name=value
LongName(arg) ==
    IF find(arg, 61) = -1
    THEN substr(arg, 2)
    ELSE substr_n(arg, 2, find(arg, 61) - 2)

\* the value starts after the last '=' of the token
LongValue_after_last_equal(arg) ==
    IF find(arg, 61) = -1
    THEN nullopt
    ELSE Some(substr(arg,
             (CHOOSE k \in 0..(Len(arg) - 1) :
                 /\ arg[k + 1] = 61
                 /\ \A j \in (k + 1)..(Len(arg) - 1) : arg[j + 1] # 61) + 1))

LongValue(arg) ==
    IF find(arg, 61) = -1
    THEN nullopt
    ELSE Some(substr(arg, find(arg, 61) + 1))

\* the arguments are searched before the flags
parse_long_argument_arguments_first(arg, command, rc) ==
    LET nm == LongName(arg)
        val == LongValue(arg)
        found_flag == find_if([k \in DOMAIN command.flags |->
                          command.flags[k].longname = nm])
        found_argument ==
            find_if([k \in DOMAIN command.arguments |->
                command.arguments[k].longname = nm])
    IN IF found_argument # 0
       THEN IF ~has_value(val)
            THEN Returned(rc, PositionnedError(
                     Error(nm, val, "Argument", "MissingValue"), 0))
            ELSE Returned(add_argument(rc, command.arguments[found_argument],
                                       nm, value(val)),
                          Expected(TRUE))
       ELSE IF found_flag # 0
       THEN IF has_value(val)
            THEN Returned(rc, PositionnedError(
                     Error(nm, val, "Flag", "FlagWithValue"), 0))
            ELSE Returned(add_flag(rc, command.flags[found_flag], nm),
                          Expected(TRUE))
       ELSE Returned(rc, PositionnedError(
                Error(nm, val, "Argument", "UnknownParameter"), 0))

parse_long_argument(arg, command, rc) ==
    LET nm == LongName(arg)
        val == LongValue(arg)
        found_flag == find_if([k \in DOMAIN command.flags |->
                          command.flags[k].longname = nm])
        found_argument ==
            find_if([k \in DOMAIN command.arguments |->
                command.arguments[k].longname = nm])
    IN IF found_flag # 0
       THEN IF has_value(val)
            THEN Returned(rc, PositionnedError(
                     Error(nm, val, "Flag", "FlagWithValue"), 0))
            ELSE Returned(add_flag(rc, command.flags[found_flag], nm),
                          Expected(TRUE))
       ELSE IF found_argument # 0
       THEN IF ~has_value(val)
            THEN Returned(rc, PositionnedError(
                     Error(nm, val, "Argument", "MissingValue"), 0))
            ELSE Returned(add_argument(rc, command.arguments[found_argument],
                                       nm, value(val)),
                          Expected(TRUE))
       ELSE Returned(rc, PositionnedError(
                Error(nm, val, "Argument", "UnknownParameter"), 0))

---------------------------------------------------------------------------
(* Parser::parse_short_argument (parser.inl 148-261) *)

\* line 155: the name portion holds more than its first codepoint
IsCombined(nm) == Len(nm) > value(utf8_char_length(nm))

\* lines 203-257, the single form.  it is the cursor of parse_command, taken
\* by reference: the result carries its new position.
ShortReturned(rc, it, r) == [result_command |-> rc, itarg |-> it, returned |-> r]

\* the cursor is left on the option, so that the dispatch resumes at the
\* token taken as the value
parse_short_single_value_redispatched(nm, it, command, rc) ==
    LET exp_codepoint == codepoint(nm)
        found_flag ==
            find_if([k \in DOMAIN command.flags |->
                command.flags[k].shortname = Some(value(exp_codepoint))])
        found_argument ==
            find_if([k \in DOMAIN command.arguments |->
                command.arguments[k].shortname = Some(value(exp_codepoint))])
    IN IF ~has_value(exp_codepoint)
       THEN ShortReturned(rc, it, PositionnedError(
                Error(nm, nullopt, "Flag", "BadString"), 0))
       ELSE IF found_flag # 0
       THEN ShortReturned(add_flag(rc, command.flags[found_flag], nm), it,
                          Expected(TRUE))
       ELSE IF found_argument # 0
       THEN IF it + 1 = SubEnd
            THEN ShortReturned(rc, it + 1, PositionnedError(
                     Error(nm, nullopt, "Argument", "MissingValue"), 0))
            ELSE ShortReturned(
                     add_argument(rc, command.arguments[found_argument], nm,
                                  SubArg(it + 1)),
                     it, Expected(TRUE))
       ELSE ShortReturned(rc, it, PositionnedError(
                Error(nm, nullopt, "Argument", "UnknownParameter"), 0))

\* the arguments are searched before the flags
parse_short_single_arguments_first(nm, it, command, rc) ==
    LET exp_codepoint == codepoint(nm)
        found_flag ==
            find_if([k \in DOMAIN command.flags |->
                command.flags[k].shortname = Some(value(exp_codepoint))])
        found_argument ==
            find_if([k \in DOMAIN command.arguments |->
                command.arguments[k].shortname = Some(value(exp_codepoint))])
    IN IF ~has_value(exp_codepoint)
       THEN ShortReturned(rc, it, PositionnedError(
                Error(nm, nullopt, "Flag", "BadString"), 0))
       ELSE IF found_argument # 0
       THEN IF it + 1 = SubEnd
            THEN ShortReturned(rc, it + 1, PositionnedError(
                     Error(nm, nullopt, "Argument", "MissingValue"), 0))
            ELSE ShortReturned(
                     add_argument(rc, command.arguments[found_argument], nm,
                                  SubArg(it + 1)),
                     it + 1, Expected(TRUE))
       ELSE IF found_flag # 0
       THEN ShortReturned(add_flag(rc, command.flags[found_flag], nm), it,
                          Expected(TRUE))
       ELSE ShortReturned(rc, it, PositionnedError(
                Error(nm, nullopt, "Argument", "UnknownParameter"), 0))

parse_short_single(nm, it, command, rc) ==
    LET exp_codepoint == codepoint(nm)
        found_flag ==
            find_if([k \in DOMAIN command.flags |->
                command.flags[k].shortname = Some(value(exp_codepoint))])
        found_argument ==
            find_if([k \in DOMAIN command.arguments |->
                command.arguments[k].shortname = Some(value(exp_codepoint))])
    IN IF ~has_value(exp_codepoint)
       THEN ShortReturned(rc, it, PositionnedError(
                Error(nm, nullopt, "Flag", "BadString"), 0))
       ELSE IF found_flag # 0
       THEN ShortReturned(add_flag(rc, command.flags[found_flag], nm), it,
                          Expected(TRUE))
       ELSE IF found_argument # 0
       THEN \* line 230: auto itvalue = ++itarg
            IF it + 1 = SubEnd
            THEN ShortReturned(rc, it + 1, PositionnedError(
                     Error(nm, nullopt, "Argument", "MissingValue"), 0))
            ELSE ShortReturned(
                     add_argument(rc, command.arguments[found_argument], nm,
                                  SubArg(it + 1)),
                     it + 1, Expected(TRUE))
       ELSE ShortReturned(rc, it, PositionnedError(
                Error(nm, nullopt, "Argument", "UnknownParameter"), 0))

\* an unregistered codepoint is reported alone, not the whole name portion
parse_short_multi_reports_codepoint(nm, i, command, rc) ==
    LET exp_len == utf8_char_length(substr(nm, i))
        exp_codepoint == codepoint(substr_n(nm, i, value(exp_len)))
        found_flag ==
            find_if([k \in DOMAIN command.flags |->
                command.flags[k].shortname = Some(value(exp_codepoint))])
    IN IF ~has_value(exp_len)
       THEN ShortReturned(rc, i, PositionnedError(
                Error(nm, nullopt, "Flag", "BadString"), 0))
       ELSE IF ~has_value(exp_codepoint)
       THEN ShortReturned(rc, i, PositionnedError(
                Error(nm, nullopt, "Flag", "BadString"), 0))
       ELSE IF found_flag = 0
       THEN ShortReturned(rc, i, PositionnedError(
                Error(substr_n(nm, i, value(exp_len)), nullopt, "Flag",
                      "UnknownParameter"), 0))
       ELSE ShortReturned(add_flag(rc, command.flags[found_flag], nm),
                          i + value(exp_len), Expected(TRUE))

\* lines 158-200, one iteration of the combined-flag loop at the offset i:
\* the returned error, or the bound flag and the next offset
parse_short_multi(nm, i, command, rc) ==
    LET exp_len == utf8_char_length(substr(nm, i))
        exp_codepoint == codepoint(substr_n(nm, i, value(exp_len)))
        found_flag ==
            find_if([k \in DOMAIN command.flags |->
                command.flags[k].shortname = Some(value(exp_codepoint))])
    IN IF ~has_value(exp_len)
       THEN ShortReturned(rc, i, PositionnedError(
                Error(nm, nullopt, "Flag", "BadString"), 0))
       ELSE IF ~has_value(exp_codepoint)
       THEN ShortReturned(rc, i, PositionnedError(
                Error(nm, nullopt, "Flag", "BadString"), 0))
       ELSE IF found_flag = 0
       THEN ShortReturned(rc, i, PositionnedError(
                Error(nm, nullopt, "Flag", "UnknownParameter"), 0))
       ELSE ShortReturned(add_flag(rc, command.flags[found_flag], nm),
                          i + value(exp_len), Expected(TRUE))

---------------------------------------------------------------------------
(* Parser::parse_command (parser.inl 265-326) *)

\* line 273: three or more leading dashes
IsSyntaxErrorFourDashes(nm) == starts_with(nm, <<45, 45, 45, 45>>)

IsSyntaxError(nm) == starts_with(nm, <<45, 45, 45>>)

\* lines 294-297: an error of a parameter parser gets the distance of the
\* cursor added to its position and is returned
Propagate(r, it) == PositionnedError(r.error, r.position + it)

\* lines 269-283
LoopSyntaxError ==
    /\ pc = "loop"
    /\ itarg # SubEnd
    /\ IsSyntaxError(SubArg(itarg))
    /\ parsed_cmd' = PositionnedError(
           Error(SubArg(itarg), nullopt, "None", "SyntaxError"), itarg)
    /\ pc' = "ret"
    /\ UNCHANGED <<parser, args, parse_itarg, current_command, itarg,
                   result_command, name, iName, ret>>

\* lines 285-287 and 294-298
LongArgument ==
    /\ pc = "loop"
    /\ itarg # SubEnd
    /\ ~IsSyntaxError(SubArg(itarg))
    /\ starts_with(SubArg(itarg), <<45, 45>>)
    /\ LET r == parse_long_argument(SubArg(itarg), value(current_command),
                                    result_command)
       IN IF r.returned.tag = "error"
          THEN /\ parsed_cmd' = Propagate(r.returned, itarg)
               /\ pc' = "ret"
               /\ UNCHANGED <<itarg, result_command>>
          ELSE /\ result_command' = r.result_command
               /\ itarg' = itarg + 1
               /\ UNCHANGED <<pc, parsed_cmd>>
    /\ UNCHANGED <<parser, args, parse_itarg, current_command, name, iName, ret>>

\* lines 288-289, 150-155 and, for the single form, 203-260 and 294-298
ShortArgument ==
    /\ pc = "loop"
    /\ itarg # SubEnd
    /\ ~IsSyntaxError(SubArg(itarg))
    /\ ~starts_with(SubArg(itarg), <<45, 45>>)
    /\ starts_with(SubArg(itarg), <<45>>)
    /\ LET nm == substr(SubArg(itarg), 1) IN
       IF ~has_value(utf8_char_length(nm))
       THEN \* line 155: value() of an empty optional
            /\ ret' = BadOptionalAccess
            /\ pc' = "done"
            /\ UNCHANGED <<itarg, result_command, name, iName, parsed_cmd>>
       ELSE IF IsCombined(nm)
       THEN /\ pc' = "multi"
            /\ name' = nm
            /\ iName' = 0
            /\ UNCHANGED <<itarg, result_command, parsed_cmd, ret>>
       ELSE LET r == parse_short_single(nm, itarg, value(current_command),
                                        result_command)
            IN IF r.returned.tag = "error"
               THEN /\ parsed_cmd' = Propagate(r.returned, r.itarg)
                    /\ pc' = "ret"
                    /\ itarg' = r.itarg
                    /\ UNCHANGED <<result_command, name, iName, ret>>
               ELSE /\ result_command' = r.result_command
                    /\ itarg' = r.itarg + 1
                    /\ UNCHANGED <<pc, name, iName, parsed_cmd, ret>>
    /\ UNCHANGED <<parser, args, parse_itarg, current_command>>

\* lines 157-200: one iteration of the combined-flag loop
MultiFlag ==
    /\ pc = "multi"
    /\ iName < Len(name)
    /\ LET r == parse_short_multi(name, iName, value(current_command),
                                  result_command)
       IN IF r.returned.tag = "error"
          THEN /\ parsed_cmd' = Propagate(r.returned, itarg)
               /\ pc' = "ret"
               /\ UNCHANGED <<result_command, iName>>
          ELSE /\ result_command' = r.result_command
               /\ iName' = r.itarg
               /\ UNCHANGED <<pc, parsed_cmd>>
    /\ UNCHANGED <<parser, args, parse_itarg, current_command, itarg, name, ret>>

\* lines 157, 260 and 294-298: the loop ends, parse_short_argument returns
\* true and the dispatch loop advances
MultiDone ==
    /\ pc = "multi"
    /\ iName >= Len(name)
    /\ pc' = "loop"
    /\ itarg' = itarg + 1
    /\ UNCHANGED <<parser, args, parse_itarg, current_command, result_command,
                   name, iName, parsed_cmd, ret>>

\* lines 290-293
Input ==
    /\ pc = "loop"
    /\ itarg # SubEnd
    /\ ~starts_with(SubArg(itarg), <<45>>)
    /\ result_command' = add_input(result_command, value(current_command),
                                   SubArg(itarg))
    /\ itarg' = itarg + 1
    /\ UNCHANGED <<parser, args, pc, parse_itarg, current_command, name, iName,
                   parsed_cmd, ret>>

\* the bound parameters are not erased from the set
RequiredArguments_nothing_erased(command, rc) ==
    { command.arguments[i].longname :
        i \in { j \in 1..Len(command.arguments) : command.arguments[j].required } }

\* lines 300-313: the long names of the required arguments that no bound
\* Argument parameter carries
RequiredArguments(command, rc) ==
    { command.arguments[i].longname :
        i \in { j \in 1..Len(command.arguments) : command.arguments[j].required } }
    \ { rc.parameters[i].name :
        i \in { j \in 1..Len(rc.parameters) : rc.parameters[j].kind = "Argument" } }

\* lines 299-325.  *required_arguments.begin() of the unordered set is any
\* one of the missing names.
PostValidation ==
    /\ pc = "loop"
    /\ itarg = SubEnd
    /\ LET required_arguments ==
               RequiredArguments(value(current_command), result_command)
       IN IF required_arguments # {}
          THEN \E missing \in required_arguments :
                   parsed_cmd' = PositionnedError(
                       Error(missing, nullopt, "Argument", "RequiredArgument"), 0)
          ELSE parsed_cmd' = Expected(result_command)
    /\ pc' = "ret"
    /\ UNCHANGED <<parser, args, parse_itarg, current_command, itarg,
                   result_command, name, iName, ret>>

---------------------------------------------------------------------------
(* Parser::parse, after parse_command returned (parser.inl 71-76) *)

Result(program, command) ==
    [tag |-> "result", program |-> program, command |-> command]

ParseReturn ==
    /\ pc = "ret"
    /\ ret' = IF parsed_cmd.tag = "error"
              THEN PositionnedError(parsed_cmd.error,
                                    parsed_cmd.position + parse_itarg)
              ELSE Result(Arg(0), parsed_cmd.value)
    /\ pc' = "done"
    /\ UNCHANGED <<parser, args, parse_itarg, current_command, itarg,
                   result_command, name, iName, parsed_cmd>>

Next ==
    \/ Parse
    \/ LoopSyntaxError
    \/ LongArgument
    \/ ShortArgument
    \/ MultiFlag
    \/ MultiDone
    \/ Input
    \/ PostValidation
    \/ ParseReturn

Spec == Init /\ [][Next]_vars

SpecLong == InitLong /\ [][Next]_vars

---------------------------------------------------------------------------
(* Properties of the command resolver *)

\* the resolver has run on a vector with a token after the program name
Resolved == pc # "parse" /\ Len(args) > 1

\* the token is exactly one codepoint
IsOneCodepoint(tok) ==
    /\ has_value(codepoint(tok))
    /\ Len(tok) = value(utf8_char_length(tok))

\* the resolver selected the command at index i of the registered commands
\* and consumed the token; with i = 0, it fell back to the global command
\* and consumed nothing
Selected(i) ==
    IF i # 0
    THEN current_command = Some(parser.commands[i]) /\ parse_itarg = 2
    ELSE current_command = get_global_command(parser) /\ parse_itarg = 1

\* C1: when the first token after the program name does not start with '-'
\* and decodes, a token of exactly one codepoint is searched among the
\* commands by short name, and every longer token is searched by long name
\* equal to the full token.
C1_LookupKeyByLength ==
    (Resolved /\ ~starts_with(Arg(1), <<45>>) /\ has_value(codepoint(Arg(1))))
    => IF IsOneCodepoint(Arg(1))
       THEN Selected(find_if([k \in DOMAIN parser.commands |->
                         parser.commands[k].shortname = codepoint(Arg(1))]))
       ELSE Selected(find_if([k \in DOMAIN parser.commands |->
                         parser.commands[k].longname = Arg(1)]))

\* the token is a word that names no registered command: not a long name,
\* and not the single-codepoint short name of any command
IsUnregisteredWord(tok) ==
    /\ ~starts_with(tok, <<45>>)
    /\ has_value(codepoint(tok))
    /\ \A i \in 1..Len(parser.commands) :
           /\ parser.commands[i].longname # tok
           /\ ~(IsOneCodepoint(tok) /\ parser.commands[i].shortname = codepoint(tok))

\* C2: a first token that names no registered command makes the resolver
\* fall back to the global command and stays unconsumed, so that it is the
\* first token of the sub-slice parse_command dispatches, and where a global
\* command exists the word causes no error of type Command.
C2_UnregisteredWordFallsBack ==
    (Resolved /\ IsUnregisteredWord(Arg(1)))
    => /\ current_command = get_global_command(parser)
       /\ parse_itarg = 1
       /\ has_value(get_global_command(parser))
              => ~(ret.tag = "error" /\ ret.error.type = "Command")

\* C3, as stated: whatever the grammar, a first token of three or more
\* leading dashes makes the parse fail with SyntaxError.
C3_TripleDashAlwaysSyntaxError ==
    (pc = "done" /\ Len(args) > 1 /\ starts_with(Arg(1), <<45, 45, 45>>))
    => ret.tag = "error" /\ ret.error.code = "SyntaxError"

\* the global command is absent: none registered, or a long-name reference
\* that matches no registered command
NoGlobal ==
    \/ parser.global_command = nullopt
    \/ /\ value(parser.global_command).holds = "string_view"
       /\ \A i \in 1..Len(parser.commands) :
              parser.commands[i].longname # value(parser.global_command).longname

\* C3, amended: with a global command that resolves, a first token of three
\* or more leading dashes makes the parse fail with SyntaxError, naming the
\* token at position 1; with no global command the parse fails with
\* NoGlobalCommand instead.
C3_TripleDashSyntaxErrorUnderGlobal ==
    (pc = "done" /\ Len(args) > 1 /\ starts_with(Arg(1), <<45, 45, 45>>))
    => /\ ret.tag = "error"
       /\ IF NoGlobal
          THEN ret.error.code = "NoGlobalCommand"
          ELSE /\ ret.error.code = "SyntaxError"
               /\ ret.error.argument = Arg(1)
               /\ ret.position = 1

C3_Witness ==
    /\ pc = "done"
    /\ Len(args) > 1
    /\ starts_with(Arg(1), <<45, 45, 45>>)
    /\ ret.tag = "error"
    /\ ret.error.code = "SyntaxError"

\* C8: with the program name alone, or a next token that begins with '-',
\* the global command governs and the resolver consumes no token; with no
\* global command the parse fails with NoGlobalCommand.  The program name
\* alone, against a global command without required arguments, yields the
\* global command with an empty parameter list.
C8_GlobalCommandGoverns ==
    (pc # "parse" /\ (Len(args) = 1 \/ starts_with(Arg(1), <<45>>)))
    => /\ parse_itarg = 1
       /\ IF NoGlobal
          THEN /\ pc = "done"
               /\ ret.tag = "error"
               /\ ret.error.code = "NoGlobalCommand"
          ELSE /\ has_value(current_command)
               /\ result_command.name = value(current_command).longname
               /\ IF value(parser.global_command).holds = "Command"
                  THEN value(current_command) = value(parser.global_command).command
                  ELSE /\ value(current_command).longname
                              = value(parser.global_command).longname
                       /\ \E i \in 1..Len(parser.commands) :
                              parser.commands[i] = value(current_command)
               /\ (/\ pc = "done"
                   /\ Len(args) = 1
                   /\ \A i \in 1..Len(value(current_command).arguments) :
                          ~value(current_command).arguments[i].required)
                  => ret = Result(Arg(0),
                           [name |-> value(current_command).longname,
                            parameters |-> <<>>])

C8_Witness ==
    /\ pc = "done"
    /\ Len(args) = 1
    /\ ret.tag = "result"
    /\ ret.command.name = GlCommand.longname
    /\ ret.command.parameters = <<>>

---------------------------------------------------------------------------
(* Observers of the result being built *)

\* the indices of the entries of rc that record the flag of long name ln
FlagEntries(rc, ln) ==
    { i \in 1..Len(rc.parameters) :
        rc.parameters[i].kind = "Flag" /\ rc.parameters[i].name = ln }

\* the occurrences of the flag of long name ln recorded in rc
Occurrences(rc, ln) ==
    IF FlagEntries(rc, ln) = {} THEN 0
    ELSE rc.parameters[CHOOSE i \in FlagEntries(rc, ln) : TRUE].occurrence

\* rc2 is rc with one more occurrence of the flag of long name ln, and
\* nothing else changed
BoundOneFlag(rc, rc2, ln) ==
    /\ rc2.name = rc.name
    /\ Cardinality(FlagEntries(rc2, ln)) = 1
    /\ Occurrences(rc2, ln) = Occurrences(rc, ln) + 1
    /\ Len(rc2.parameters)
           = Len(rc.parameters) + (IF FlagEntries(rc, ln) = {} THEN 1 ELSE 0)
    /\ \A i \in 1..Len(rc.parameters) :
           i \notin FlagEntries(rc, ln) => rc2.parameters[i] = rc.parameters[i]

\* rc2 is rc with the pair {ln, val} appended
BoundArgument(rc, rc2, ln, val) ==
    /\ rc2.name = rc.name
    /\ rc2.parameters = Append(rc.parameters, ResultArgument(ln, val))

\* rc records a value of the argument of long name ln
Supplied(rc, ln) ==
    \E i \in 1..Len(rc.parameters) :
        rc.parameters[i].kind = "Argument" /\ rc.parameters[i].name = ln

\* the least element of a non-empty set of indices
First(S) == CHOOSE i \in S : \A j \in S : i <= j

FlagsByShort(command, cp) ==
    { i \in 1..Len(command.flags) : command.flags[i].shortname = Some(cp) }

ArgumentsByShort(command, cp) ==
    { i \in 1..Len(command.arguments) : command.arguments[i].shortname = Some(cp) }

FlagsByLong(command, ln) ==
    { i \in 1..Len(command.flags) : command.flags[i].longname = ln }

\* the dispatch loop is about to dispatch the token at its cursor
AtToken == pc = "loop" /\ itarg # SubEnd

\* parse_command returns the error of code c
Fails(c) ==
    /\ pc' = "ret"
    /\ parsed_cmd'.tag = "error"
    /\ parsed_cmd'.error.code = c

\* tok is -x with x exactly one codepoint
IsSingleShort(tok) ==
    /\ starts_with(tok, <<45>>)
    /\ ~starts_with(tok, <<45, 45>>)
    /\ IsOneCodepoint(substr(tok, 1))

\* tok is -xy.. with a name of more than one codepoint, the first well formed
IsCombinedShort(tok) ==
    /\ starts_with(tok, <<45>>)
    /\ ~starts_with(tok, <<45, 45>>)
    /\ has_value(codepoint(substr(tok, 1)))
    /\ ~IsOneCodepoint(substr(tok, 1))

---------------------------------------------------------------------------
(* Required arguments *)

\* the required arguments of the resolved command, as indices
RequiredOf(command) ==
    { i \in 1..Len(command.arguments) : command.arguments[i].required }

\* tok is --N=v for the long name N
IsLongWithValue(tok, ln) == starts_with(tok, <<45, 45>> \o ln \o <<61>>)

\* the dispatch of --N=v, N a required argument and no flag, binds N
C4_LongFormSupplies ==
    \A i \in RequiredOf(value(current_command)) :
        LET ln == value(current_command).arguments[i].longname IN
        (/\ IsLongWithValue(SubArg(itarg), ln)
         /\ FlagsByLong(value(current_command), ln) = {})
        => pc' = "loop" /\ Supplied(result_command', ln)

\* the dispatch of -s v, s the short name of a required argument and of no
\* flag, binds that argument
C4_ShortFormSupplies ==
    \A i \in RequiredOf(value(current_command)) :
        LET a == value(current_command).arguments[i] IN
        (/\ IsSingleShort(SubArg(itarg))
         /\ Some(value(codepoint(substr(SubArg(itarg), 1)))) = a.shortname
         /\ FlagsByShort(value(current_command), value(a.shortname)) = {}
         /\ First(ArgumentsByShort(value(current_command), value(a.shortname))) = i
         /\ itarg + 1 # SubEnd)
        => pc' = "loop" /\ Supplied(result_command', a.longname)

\* post-validation fails with RequiredArgument, naming a required argument
\* that was not supplied, exactly when there is one
C4_PostValidation ==
    LET missing ==
            { i \in RequiredOf(value(current_command)) :
                ~Supplied(result_command,
                          value(current_command).arguments[i].longname) }
    IN IF missing = {}
       THEN pc' = "ret" /\ parsed_cmd' = Expected(result_command)
       ELSE /\ Fails("RequiredArgument")
            /\ \E i \in missing :
                   parsed_cmd'.error.argument
                       = value(current_command).arguments[i].longname

\* tok names the argument a: --N.. or -s
Mentions(tok, a) ==
    \/ starts_with(tok, <<45, 45>> \o a.longname)
    \/ /\ IsSingleShort(tok)
       /\ codepoint(substr(tok, 1)) = a.shortname

\* no parse succeeds on a line none of whose tokens names a required argument
C4_NotSuppliedNeverSucceeds ==
    (/\ pc = "done"
     /\ has_value(current_command)
     /\ \E i \in RequiredOf(value(current_command)) :
            \A k \in 0..(SubEnd - 1) :
                ~Mentions(SubArg(k), value(current_command).arguments[i]))
    => ret.tag # "result"

\* C4: a required argument N with short name s that no token supplies makes
\* the parse fail with RequiredArgument; supplied as --N=v or as -s v it is
\* bound, stays bound, and post-validation does not fail because of it.
C4_RequiredArgumentSatisfiedByEitherForm ==
    [][ /\ AtToken => C4_LongFormSupplies /\ C4_ShortFormSupplies
        /\ (pc = "loop" /\ itarg = SubEnd) => C4_PostValidation
        /\ (pc \in {"loop", "multi"} /\ pc' \in {"loop", "multi", "ret"})
               => \A i \in RequiredOf(value(current_command)) :
                      Supplied(result_command,
                               value(current_command).arguments[i].longname)
                      => Supplied(result_command',
                                  value(current_command).arguments[i].longname)
        /\ (pc = "ret" /\ parsed_cmd.tag = "error")
               => ret'.tag = "error" /\ ret'.error = parsed_cmd.error
        /\ (pc = "ret" /\ parsed_cmd.tag = "value")
               => ret'.tag = "result" /\ ret'.command = parsed_cmd.value
        /\ C4_NotSuppliedNeverSucceeds'
      ]_vars

\* "b -n v": the required argument nn of bu, supplied in short form
C4_Witness ==
    /\ pc = "done"
    /\ current_command = Some(BuCommand)
    /\ parse_itarg = 2
    /\ SubEnd = 2
    /\ SubArg(0) = <<45, 110>>
    /\ ret.tag = "result"
    /\ ret.command.parameters = <<ResultArgument(<<110, 110>>, SubArg(1))>>

---------------------------------------------------------------------------
(* Error positions *)

TokenCodes ==
    {"SyntaxError", "FlagWithValue", "MissingValue", "UnknownParameter",
     "BadString"}

\* tok is the token the error e is about
IsOffendingToken(tok, e) ==
    \/ e.code = "SyntaxError" /\ tok = e.argument
    \/ e.code = "BadString" /\ e.type = "None" /\ ~has_value(codepoint(tok))
    \/ /\ e.code # "SyntaxError"
       /\ starts_with(tok, <<45, 45>>)
       /\ LongName(tok) = e.argument
       /\ LongValue(tok) = e.value
    \/ /\ e.code # "SyntaxError"
       /\ ~starts_with(tok, <<45, 45>>)
       /\ tok = <<45>> \o e.argument

\* C5: the position of an error caused by a token is the zero-based index,
\* in the original argument vector, of that token.
C5_PositionIndexesOffendingToken ==
    (pc = "done" /\ ret.tag = "error" /\ ret.error.code \in TokenCodes)
    => /\ ret.position < Len(args)
       /\ IsOffendingToken(Arg(ret.position), ret.error)

---------------------------------------------------------------------------
(* Short options *)

\* a token -xy.. starts the combined-flag loop at the first byte of its name
C6_Enter ==
    (AtToken /\ IsCombinedShort(SubArg(itarg)))
    => /\ pc' = "multi"
       /\ name' = substr(SubArg(itarg), 1)
       /\ iName' = 0
       /\ result_command' = result_command

\* an iteration at a well-formed codepoint binds one occurrence of the flag
\* it names and moves past it, or fails naming the whole name portion
C6_Iteration ==
    (pc = "multi" /\ iName < Len(name) /\ has_value(codepoint(substr(name, iName))))
    => LET cp == value(codepoint(substr(name, iName)))
           flags == FlagsByShort(value(current_command), cp)
       IN IF flags # {}
          THEN /\ pc' = "multi"
               /\ iName' = iName + value(utf8_char_length(substr(name, iName)))
               /\ BoundOneFlag(result_command, result_command',
                      value(current_command).flags[First(flags)].longname)
          ELSE /\ Fails("UnknownParameter")
               /\ parsed_cmd'.error.argument = name
               /\ name = substr(SubArg(itarg), 1)

\* a name of distinct ASCII letters, expanded as the first token of the
\* sub-slice, leaves exactly its flags, one occurrence each, in its order
C6_Order ==
    (/\ pc = "multi"
     /\ iName = Len(name)
     /\ itarg = 0
     /\ \A i \in 1..Len(name) : name[i] < 128
     /\ \A i, j \in 1..Len(name) : name[i] = name[j] => i = j)
    => /\ Len(result_command.parameters) = Len(name)
       /\ \A i \in 1..Len(name) :
              result_command.parameters[i]
                  = ResultFlag(value(current_command).flags[
                        First(FlagsByShort(value(current_command), name[i]))
                    ].longname, 1)

\* C6: a combined short token -abc binds one occurrence of each flag a, b,
\* c, left to right, each to its own registered flag; a codepoint that is
\* no flag short name (an argument short name included) makes the call
\* fail with UnknownParameter whose argument is the whole name portion.
C6_CombinedShortFlags ==
    [][C6_Enter /\ C6_Iteration /\ C6_Order']_vars

\* "-abc" against gl, whose flags have the short names a, b and c
C6_Witness ==
    /\ pc = "multi"
    /\ name = <<97, 98, 99>>
    /\ iName = 3
    /\ result_command.parameters
           = <<ResultFlag(<<97, 97>>, 1), ResultFlag(<<98, 98>>, 1),
               ResultFlag(<<99, 99>>, 1)>>

\* C9: a single-form short token -x binds one occurrence of the flag of
\* short name x and consumes nothing more, even if an argument has the
\* short name x too; otherwise it binds the next token as the value of the
\* argument of short name x, failing with MissingValue when there is no
\* next token; otherwise it fails with UnknownParameter.
C9_SingleShortOption ==
    [][ (AtToken /\ IsSingleShort(SubArg(itarg)))
        => LET cp == value(codepoint(substr(SubArg(itarg), 1)))
               flags == FlagsByShort(value(current_command), cp)
               arguments == ArgumentsByShort(value(current_command), cp)
           IN IF flags # {}
              THEN /\ pc' = "loop"
                   /\ itarg' = itarg + 1
                   /\ BoundOneFlag(result_command, result_command',
                          value(current_command).flags[First(flags)].longname)
              ELSE IF arguments # {}
              THEN IF itarg + 1 # SubEnd
                   THEN /\ pc' = "loop"
                        /\ itarg' = itarg + 2
                        /\ BoundArgument(result_command, result_command',
                               value(current_command).arguments[
                                   First(arguments)].longname,
                               SubArg(itarg + 1))
                   ELSE Fails("MissingValue")
              ELSE Fails("UnknownParameter")
      ]_vars

\* "-n v" against gl: the argument nn took the token v as its value
C9_Witness ==
    /\ pc = "loop"
    /\ current_command = Some(GlCommand)
    /\ itarg = 2
    /\ SubArg(0) = <<45, 110>>
    /\ result_command.parameters = <<ResultArgument(<<110, 110>>, SubArg(1))>>

---------------------------------------------------------------------------
(* Long options *)

\* C7: a token --name=value whose name is the long name of a registered
\* flag fails with FlagWithValue carrying the name and the value and binds
\* nothing, also when an argument has the same long name; the error is what
\* parse returns.
C7_FlagWithValue ==
    [][ /\ AtToken
           => \A i \in 1..Len(value(current_command).flags) :
                  LET ln == value(current_command).flags[i].longname IN
                  (/\ IsLongWithValue(SubArg(itarg), ln)
                   /\ ~starts_with(SubArg(itarg), <<45, 45, 45>>)
                   /\ \A k \in 1..Len(ln) : ln[k] # 61)
                  => /\ Fails("FlagWithValue")
                     /\ parsed_cmd'.error.argument = ln
                     /\ parsed_cmd'.error.value
                            = Some(substr(SubArg(itarg), Len(ln) + 3))
                     /\ result_command' = result_command
        /\ (pc = "ret" /\ parsed_cmd.tag = "error"
                /\ parsed_cmd.error.code = "FlagWithValue")
               => ret'.tag = "error" /\ ret'.error = parsed_cmd.error
      ]_vars

\* "--nn=v" against gl, where nn is both a flag and an argument
C7_Witness ==
    /\ pc = "done"
    /\ current_command = Some(GlCommand)
    /\ ret.tag = "error"
    /\ ret.error.code = "FlagWithValue"
    /\ ret.error.argument = <<110, 110>>
    /\ ret.error.value = Some(<<118>>)
    /\ \E k \in 0..(SubEnd - 1) :
           /\ SubArg(k) = <<45, 45, 110, 110, 61, 118>>
           /\ \E i \in 1..Len(GlCommand.arguments) :
                  GlCommand.arguments[i].longname = <<110, 110>>

ArgumentsByLong(command, ln) ==
    { i \in 1..Len(command.arguments) : command.arguments[i].longname = ln }

\* the one-based places of the character '=' in tok
EqualSigns(tok) == { k \in 1..Len(tok) : tok[k] = 61 }

\* the text of tok between the leading "--" and its first '=', or all that
\* follows the "--" when tok has no '='
NamePortion(tok) ==
    IF EqualSigns(tok) = {}
    THEN SubSeq(tok, 3, Len(tok))
    ELSE SubSeq(tok, 3, First(EqualSigns(tok)) - 1)

\* all that follows the first '=' of tok
ValuePortion(tok) == SubSeq(tok, First(EqualSigns(tok)) + 1, Len(tok))

\* C11: a long-option token --name or --name=value whose name (the text
\* between the leading "--" and the first '=', or the whole rest) matches no
\* flag of the resolved command binds the argument of that name with all
\* that follows the first '=' as its value when it matches an argument and
\* has a '=', fails with MissingValue when it matches an argument and has
\* no '=', and fails with UnknownParameter when it matches no argument.
C11_LongOptionNotAFlag ==
    [][ (/\ AtToken
         /\ starts_with(SubArg(itarg), <<45, 45>>)
         /\ ~starts_with(SubArg(itarg), <<45, 45, 45>>)
         /\ FlagsByLong(value(current_command), NamePortion(SubArg(itarg))) = {})
        => LET tok == SubArg(itarg)
               arguments == ArgumentsByLong(value(current_command),
                                            NamePortion(tok))
           IN IF arguments # {}
              THEN IF EqualSigns(tok) # {}
                   THEN /\ pc' = "loop"
                        /\ itarg' = itarg + 1
                        /\ BoundArgument(result_command, result_command',
                               value(current_command).arguments[
                                   First(arguments)].longname,
                               ValuePortion(tok))
                   ELSE /\ Fails("MissingValue")
                        /\ parsed_cmd'.error.argument = NamePortion(tok)
                        /\ result_command' = result_command
              ELSE /\ Fails("UnknownParameter")
                   /\ parsed_cmd'.error.argument = NamePortion(tok)
                   /\ result_command' = result_command
      ]_vars

\* "b --nn= --nn==": the argument nn of bu, which is no flag, bound to the
\* empty value and then to the value "="
C11_Witness ==
    /\ pc = "loop"
    /\ current_command = Some(BuCommand)
    /\ itarg = 2
    /\ SubArg(0) = <<45, 45, 110, 110, 61>>
    /\ SubArg(1) = <<45, 45, 110, 110, 61, 61>>
    /\ result_command.parameters
           = <<ResultArgument(<<110, 110>>, <<>>),
               ResultArgument(<<110, 110>>, <<61>>)>>

---------------------------------------------------------------------------
(* Decoding failures *)

\* C10: every UTF-8 decoding failure at a decode point is returned as an
\* error of code BadString: a malformed first token in the resolver, a
\* malformed or absent first codepoint of the name portion of a short
\* option, and a malformed later codepoint of a combined name.
C10_DecodeFailureIsBadString ==
    [][ /\ (/\ pc = "parse"
            /\ Len(args) > 1
            /\ ~starts_with(Arg(1), <<45>>)
            /\ ~has_value(codepoint(Arg(1))))
           => ret'.tag = "error" /\ ret'.error.code = "BadString"
        /\ (/\ AtToken
            /\ starts_with(SubArg(itarg), <<45>>)
            /\ ~starts_with(SubArg(itarg), <<45, 45>>)
            /\ ~has_value(codepoint(substr(SubArg(itarg), 1))))
           => Fails("BadString")
        /\ (/\ pc = "multi"
            /\ iName < Len(name)
            /\ ~has_value(codepoint(substr(name, iName))))
           => Fails("BadString")
      ]_vars

---------------------------------------------------------------------------
(* Termination *)

\* the token at the cursor is a single-form short option that resolves to
\* an argument, which consumes the next token as its value
ResolvesToArgument(command, tok) ==
    /\ IsSingleShort(tok)
    /\ LET cp == value(codepoint(substr(tok, 1)))
       IN /\ FlagsByShort(command, cp) = {}
          /\ ArgumentsByShort(command, cp) # {}

ConsumesValue == ResolvesToArgument(value(current_command), SubArg(itarg))

\* an iteration of the dispatch loop that reaches the next one moves the
\* cursor by one token, or by two when a short argument consumed its value;
\* the expansion of a combined token keeps the cursor on that token
C12_CursorAdvances ==
    /\ (pc = "loop" /\ pc' = "loop")
           => itarg' = itarg + (IF ConsumesValue THEN 2 ELSE 1)
    /\ (pc = "loop" /\ pc' = "multi") => itarg' = itarg
    /\ (pc = "multi" /\ pc' = "multi") => itarg' = itarg
    /\ (pc = "multi" /\ pc' = "loop") => itarg' = itarg + 1

\* the cursor stays within the sub-slice, its end included
C12_CursorInBounds ==
    (pc # "parse" /\ has_value(current_command))
    => itarg >= 0 /\ itarg <= SubEnd

\* an iteration of the combined-flag loop that reaches the next one moves
\* the byte offset forward
C12_InnerLoopAdvances ==
    (pc = "multi" /\ pc' = "multi")
    => iName < Len(name) /\ iName' >= iName + 1

\* the place of a control point in the order parse, dispatch, return, done
Phase(p) ==
    CASE p = "parse" -> 0
      [] p \in {"loop", "multi"} -> 1
      [] p = "ret" -> 2
      [] p = "done" -> 3

\* every step moves to a later phase, or the cursor forward, or from the
\* dispatch into the expansion of the token at the cursor, or the byte
\* offset of the expansion forward
C12_Progress ==
    \/ Phase(pc') > Phase(pc)
    \/ Phase(pc') = Phase(pc) /\ itarg' > itarg
    \/ pc = "loop" /\ pc' = "multi" /\ itarg' = itarg
    \/ pc = "multi" /\ pc' = "multi" /\ itarg' = itarg /\ iName' > iName

\* a parse that is not over can take a step
C12_NeverStuck == pc = "done" \/ ENABLED Next

\* what a finished parse returned is a Result or an error
C12_OneOutcome == pc = "done" => ret.tag \in {"result", "error"}

\* the steps of the loops, without the outcome
C12_LoopsAdvance ==
    [][ /\ C12_CursorAdvances
        /\ C12_CursorInBounds'
        /\ C12_InnerLoopAdvances
        /\ C12_Progress
      ]_vars

\* C12: the parse of a finite argument vector terminates with one Result or
\* one error: every iteration of the dispatch loop moves the cursor by one
\* token, or by two when a short argument consumes its value, the cursor
\* never passes the end of the vector, and every iteration of the
\* combined-flag loop moves forward by at least one byte.
C12_TerminatesWithOneOutcome ==
    [][ /\ C12_CursorAdvances
        /\ C12_CursorInBounds'
        /\ C12_InnerLoopAdvances
        /\ C12_Progress
        /\ C12_OneOutcome'
      ]_vars

---------------------------------------------------------------------------
(* The value of a short argument *)

\* the argument that the single-form short option tok resolves to
ArgumentOf(command, tok) ==
    command.arguments[
        First(ArgumentsByShort(command, value(codepoint(substr(tok, 1)))))]

\* the dispatch of a short argument followed by a token binds that token as
\* it is, binds nothing else, returns no error, and moves to the token after
C13_ValueTaken ==
    (AtToken /\ ConsumesValue /\ itarg + 1 # SubEnd)
    => /\ pc' = "loop"
       /\ itarg' = itarg + 2
       /\ BoundArgument(result_command, result_command',
              ArgumentOf(value(current_command), SubArg(itarg)).longname,
              SubArg(itarg + 1))
       /\ parsed_cmd' = parsed_cmd
       /\ ret' = ret

\* a short argument and its value as the whole sub-slice: the parse returns
\* the one binding, or the error of a required argument that is missing
C13_OnlyTheValue ==
    (/\ pc = "done"
     /\ has_value(current_command)
     /\ SubEnd = 2
     /\ ResolvesToArgument(value(current_command), SubArg(0)))
    => \/ /\ ret.tag = "result"
          /\ ret.command.parameters
                 = <<ResultArgument(
                        ArgumentOf(value(current_command), SubArg(0)).longname,
                        SubArg(1))>>
       \/ /\ ret.tag = "error"
          /\ ret.error.code = "RequiredArgument"

\* C13: when a single-form short option resolves to an argument, the token
\* after it is bound as the value as it is, whatever it starts with: it is
\* never classified nor dispatched, so it yields no flag binding, no
\* SyntaxError and no UnknownParameter, and the dispatch resumes at the
\* token after the value.
C13_ValueTokenNotDispatched ==
    [][C13_ValueTaken /\ C13_OnlyTheValue']_vars

\* "-n ---x -a" against gl: ---x is the value of nn, and -a, the token after
\* it, is dispatched as the flag aa
C13_Witness ==
    /\ pc = "done"
    /\ current_command = Some(GlCommand)
    /\ SubEnd = 3
    /\ SubArg(0) = <<45, 110>>
    /\ SubArg(1) = <<45, 45, 45, 120>>
    /\ SubArg(2) = <<45, 97>>
    /\ ret.tag = "result"
    /\ ret.command.parameters
           = <<ResultArgument(<<110, 110>>, <<45, 45, 45, 120>>),
               ResultFlag(<<97, 97>>, 1)>>

=============================================================================
